---- MODULE Spec2Model ----
(***************************************************************************)
(* A model of obsidian-copilot's retrieval back end:                       *)
(*   - src/app.py: get_chunks_from_hits (rank fusion, deduplication and    *)
(*     the token-bounded context walk), the hit parsers and get_chunks;    *)
(*   - src/prep/build_vault_dict.py: chunk_doc_to_dict, create_vault_dict; *)
(*   - src/prep/build_semantic_index.py: build_embedding_index,            *)
(*     build_embedding_array and its batches, query_semantic;              *)
(*   - src/prep/build_opensearch_index.py: index_vault and its bulk calls, *)
(*     query_opensearch's filter.                                          *)
(*                                                                         *)
(* Text is modelled by TLA+ strings, a Python dict by the sequence of its  *)
(* items in insertion order, a raised exception by pc = "raised".          *)
(***************************************************************************)
EXTENDS Integers, Sequences, FiniteSets, TLC

VARIABLES
    hits,          \* get_chunks_from_hits: the argument `hits`, a list of {id, rank}
    vault,         \* the module-level vault dict of app.py (items in insertion order)
    max_tokens,    \* get_chunks_from_hits: the argument `max_tokens`
    argsort_ties,  \* the order in which this build's argsort leaves the positions of equal scores
    pc,            \* position of the call in progress
    ranked,        \* get_chunks_from_hits: the DataFrame `ranked`, rows {id, score}
    pos,           \* number of ids of `ranked` the for loop has taken
    token_count,   \* get_chunks_from_hits: the local `token_count`
    chunks,        \* get_chunks_from_hits: the local list `chunks`
    error,         \* the exception that ended the run, "" when none
    fs,            \* the markdown files under the vault path: path -> lines
    rglob,         \* the order in which Path.rglob yields the files
    paths,         \* the list get_file_paths returns, create_vault_dict's argument
    taken,         \* create_vault_dict: number of paths the for loop has taken
    lines,         \* create_vault_dict: the local `lines` of the file last read
    doc_chunks,    \* create_vault_dict: the local `chunks` of the file last read
    os_docs,       \* the documents index_vault has sent to the lexical index
    embedding_index,  \* app.py's embedding_index: row k - 1 is of the id at place k
    query,         \* get_chunks: the argument `query`
    docs_unsent,   \* index_vault: the local list `docs`, not yet sent
    chunks_indexed,  \* index_vault: the local `chunks_indexed`
    bulk_calls,    \* the calls of bulk(client, docs) made so far, each the list it sent
    batch_size,    \* build_embedding_array: the argument `batch_size`
    doc_embeddings_array  \* the array build_embedding_array returns, row k - 1 at place k

indexVars == <<docs_unsent, chunks_indexed, bulk_calls>>

embedVars == <<batch_size, doc_embeddings_array>>

buildVars == <<fs, rglob, paths, taken, lines, doc_chunks, os_docs, embedding_index,
               indexVars, embedVars>>

vars == <<hits, vault, max_tokens, argsort_ties, pc, ranked, pos, token_count,
          chunks, error, query, buildVars>>

-----------------------------------------------------------------------------
(* Bounds of the model. *)

MaxHits == 3

\* The greatest batch_size build_embedding_array is given.
MaxBatchSize == 5

\* The greatest number of records of the vaults build_embedding_array is given.
MaxEmbedRecords == 5

\* build_embedding_array: the default of batch_size
DefaultBatchSize == 4

-----------------------------------------------------------------------------
(* Strings. *)

\* str.startswith
StartsWith(s, prefix) ==
    Len(s) >= Len(prefix) /\ SubSeq(s, 1, Len(prefix)) = prefix

\* the `in` operator on two strings
Contains(s, part) ==
    \E k \in 1..(Len(s) - Len(part) + 1) : SubSeq(s, k, k + Len(part) - 1) = part

\* The chunk ids of the model, in Python's str order: the order groupby sorts its keys in.
IdOrder == <<"a.md", "a.md-0", "a.md-1", "b.md", "b.md-0", "b.md-1">>

\* The permutations of a sequence without repetitions.
SeqPermutations(s) ==
    {p \in [1..Len(s) -> {s[k] : k \in 1..Len(s)}] :
        \A a, b \in 1..Len(s) : a # b => p[a] # p[b]}

-----------------------------------------------------------------------------
(* The vault dict. *)

Has(d, id) == \E k \in 1..Len(d) : d[k].id = id

Get(d, id) == d[CHOOSE k \in 1..Len(d) : d[k].id = id]

\* The characters of a string are those a string of this module can hold, U+0000
\* to U+00FF, taken by the classes the code tells apart.

AsciiLetters ==
    {"a", "b", "c", "d", "e", "f", "g", "h", "i", "j", "k", "l", "m", "n", "o", "p",
     "q", "r", "s", "t", "u", "v", "w", "x", "y", "z",
     "A", "B", "C", "D", "E", "F", "G", "H", "I", "J", "K", "L", "M", "N", "O", "P",
     "Q", "R", "S", "T", "U", "V", "W", "X", "Y", "Z"}

\* U+00AA, U+00B5, U+00BA, U+00C0 to U+00D6, U+00D8 to U+00F6, U+00F8 to U+00FF
LatinLetters ==
    {"ª", "µ", "º", "À", "Á", "Â", "Ã", "Ä", "Å", "Æ", "Ç", "È", "É", "Ê", "Ë", "Ì",
     "Í", "Î", "Ï", "Ð", "Ñ", "Ò", "Ó", "Ô", "Õ", "Ö", "Ø", "Ù", "Ú", "Û", "Ü", "Ý",
     "Þ", "ß", "à", "á", "â", "ã", "ä", "å", "æ", "ç", "è", "é", "ê", "ë", "ì", "í",
     "î", "ï", "ð", "ñ", "ò", "ó", "ô", "õ", "ö", "ø", "ù", "ú", "û", "ü", "ý", "þ",
     "ÿ"}

\* \p{L}
Letters == AsciiLetters \cup LatinLetters

AsciiDigits == {"0", "1", "2", "3", "4", "5", "6", "7", "8", "9"}

\* U+00B2, U+00B3, U+00B9, U+00BC to U+00BE
LatinNumbers == {"²", "³", "¹", "¼", "½", "¾"}

\* \p{N}
Digits == AsciiDigits \cup LatinNumbers

\* [\r\n]
Newlines == {"\n", "\r"}

\* \s of the split pattern: U+0009 to U+000D, the space, U+0085 and U+00A0.
Whitespace == {" ", "\t", "\n", "\r", "\f", "", "", " "}

\* U+001C to U+001F: whitespace for str.isspace(), not for \s.
Separators == {"", "", "", ""}

StrSpace == Whitespace \cup Separators

\* str.isspace() of one character: what str.split() splits on.
IsSpace(c) == c \in StrSpace

\* The characters from U+0080 on that are no letter, number or whitespace.
LatinMarks ==
    {"", "", "", "", "", "", "", "", "", "", "", "", "", "", "", "",
     "", "", "", "", "", "", "", "", "", "", "", "", "", "", "", "¡",
     "¢", "£", "¤", "¥", "¦", "§", "¨", "©", "«", "¬", "­", "®", "¯", "°", "±", "´",
     "¶", "·", "¸", "»", "¿", "×", "÷"}

\* The characters UTF-8 writes in two bytes: those from U+0080 on.
TwoBytes == LatinLetters \cup LatinNumbers \cup LatinMarks \cup {"", " "}

\* The character of s at place i.
Ch(s, i) == SubSeq(s, i, i)

\* The class of a character in the split pattern of the encoding: \p{L},
\* \p{N}, [\r\n], the rest of \s, and [^\s\p{L}\p{N}].
ClassOf(c) ==
    IF c \in Letters THEN "letter"
    ELSE IF c \in Digits THEN "digit"
    ELSE IF c \in Newlines THEN "newline"
    ELSE IF c \in Whitespace THEN "blank"
    ELSE "mark"

\* The classes of the characters of s, place by place.
Classes(s) == [k \in 1..Len(s) |-> ClassOf(Ch(s, k))]

\* A character of class k is of `class`; \s is the newlines and the blanks.
InClass(k, class) ==
    IF class = "space" THEN k \in {"newline", "blank"} ELSE k = class

\* The place where the run of characters of a class that starts at place i
\* ends, cl being the classes of the string; i - 1 when the character at i is
\* not of the class.
RECURSIVE RunEnd(_, _, _)
RunEnd(cl, i, class) ==
    IF i <= Len(cl) /\ InClass(cl[i], class) THEN RunEnd(cl, i + 1, class) ELSE i - 1

\* The place of the last [\r\n] among the places i..j; i - 1 when none.
RECURSIVE LastNewline(_, _, _)
LastNewline(cl, i, j) ==
    IF j < i THEN i - 1
    ELSE IF cl[j] = "newline" THEN j
    ELSE LastNewline(cl, i, j - 1)

\* \s*[\r\n]+ | \s+(?!\S) | \s+ at place i, where a run of whitespace starts:
\* up to the last newline of the run; else the whole run when the string ends
\* with it; else the run less its last character when that leaves any; else
\* the run.
SpaceEnd(cl, i) ==
    LET spaces == RunEnd(cl, i, "space")
        newline == LastNewline(cl, i, spaces)
    IN  IF newline >= i THEN newline
        ELSE IF spaces = Len(cl) THEN spaces
        ELSE IF spaces > i THEN spaces - 1
        ELSE spaces

\* (?i:'s|'t|'re|'ve|'m|'ll|'d) at place i of s, where an apostrophe is: the
\* place where the match ends, i - 1 when there is none.
ContractionEnd(s, i) ==
    LET n == Len(s)
        next == IF i < n THEN Ch(s, i + 1) ELSE ""
        two == IF i + 1 < n THEN SubSeq(s, i + 1, i + 2) ELSE ""
    IN  IF next \in {"s", "S", "t", "T"} THEN i + 1
        ELSE IF two \in {"re", "rE", "Re", "RE", "ve", "vE", "Ve", "VE"} THEN i + 2
        ELSE IF next \in {"m", "M"} THEN i + 1
        ELSE IF two \in {"ll", "lL", "Ll", "LL"} THEN i + 2
        ELSE IF next \in {"d", "D"} THEN i + 1
        ELSE i - 1

\* tiktoken, cl100k_base (the encoding of gpt-3.5-turbo): the place where the
\* piece that starts at place i of s ends, cl being Classes(s). The split
\* pattern is
\*   (?i:'s|'t|'re|'ve|'m|'ll|'d) | [^\r\n\p{L}\p{N}]?\p{L}+ | \p{N}{1,3}
\*   | ?[^\s\p{L}\p{N}]+[\r\n]* | \s*[\r\n]+ | \s+(?!\S) | \s+
\* and the first alternative that matches at a place gives the piece.
PieceEnd(s, cl, i) ==
    LET n == Len(cl)
        k == cl[i]
        mark == IF k = "blank" /\ i < n /\ cl[i + 1] = "mark" /\ Ch(s, i) = " "
                THEN i + 1 ELSE i
    IN  IF k = "letter" THEN RunEnd(cl, i, "letter")
        ELSE IF k = "mark" /\ Ch(s, i) = "'" /\ ContractionEnd(s, i) > i
             THEN ContractionEnd(s, i)
        ELSE IF k \in {"mark", "blank"} /\ i < n /\ cl[i + 1] = "letter"
             THEN RunEnd(cl, i + 1, "letter")
        ELSE IF k = "digit"
             THEN (IF RunEnd(cl, i, "digit") > i + 2 THEN i + 2 ELSE RunEnd(cl, i, "digit"))
        ELSE IF cl[mark] = "mark"
             THEN RunEnd(cl, RunEnd(cl, mark, "mark") + 1, "newline")
        ELSE SpaceEnd(cl, i)

\* The pieces the split pattern cuts s into from place i on.
RECURSIVE PiecesFrom(_, _, _)
PiecesFrom(s, cl, i) ==
    IF i > Len(s) THEN <<>>
    ELSE LET end == PieceEnd(s, cl, i)
         IN  <<SubSeq(s, i, end)>> \o PiecesFrom(s, cl, end + 1)

Pieces(s) == PiecesFrom(s, Classes(s), 1)

\* The pieces of more than one character that the vocabulary of cl100k_base
\* holds as one token, among those the texts of the model give.
MergedPieces == {" a", " b", " c", " H", "\n\n", "\n\n\n"}

\* The vocabulary holds the piece as one token: each of the 256 bytes is a
\* token, so every character UTF-8 writes in one byte is, and the merged
\* pieces are.
InVocabulary(piece) ==
    (Len(piece) = 1 /\ piece \notin TwoBytes) \/ piece \in MergedPieces

\* The number of tokens byte-pair encoding gives for a piece: one for a piece
\* of the vocabulary. The merges of any other piece are data of the encoding
\* that is not listed here, so its count is left unspecified: the CHOOSE has
\* no value then, and no text whose tokens are counted has such a piece.
PieceTokens(piece) == CHOOSE n \in {1} : InVocabulary(piece)

RECURSIVE SumTokens(_)
SumTokens(pieces) ==
    IF pieces = <<>> THEN 0 ELSE PieceTokens(Head(pieces)) + SumTokens(Tail(pieces))

\* The special tokens of cl100k_base.
SpecialTokens ==
    {"<|endoftext|>", "<|fim_prefix|>", "<|fim_middle|>", "<|fim_suffix|>",
     "<|endofprompt|>"}

\* encoding.encode(string) is called with its defaults, allowed_special=set()
\* and disallowed_special="all": it raises ValueError on a text that holds the
\* text of a special token.
Disallowed(string) == \E token \in SpecialTokens : Contains(string, token)

\* len(encoding.encode(string)), of a text encode() takes.
CountTokens(string) == CHOOSE n \in {SumTokens(Pieces(string))} : ~Disallowed(string)

\* The counts of the chunk texts of the model's vaults, each computed once.
CountedTexts ==
    {"a", "a b", "# H\n- b\nt\n", "# H\n- b\nt\nt\n", "# H\n- b\nt\nt\n\n\n"}

TokenCounts == {<<text, CountTokens(text)>> : text \in CountedTexts}

\* num_tokens_from_string, lines 103-105, of a text encode() takes.
num_tokens_from_string(string) ==
    IF string \in CountedTexts
    THEN (CHOOSE counted \in TokenCounts : counted[1] = string)[2]
    ELSE CountTokens(string)


-----------------------------------------------------------------------------
(* get_chunks_from_hits, app.py:108-141. *)

\* The constant of `lambda x: 10 - x`.
K == 10

\* df['score'] = df['rank'].apply(lambda x: 10 - x)
ScoreOfRank(rank) == K - rank

\* pd.DataFrame(hits) with the score column added: rows {id, rank, score}.
WithScore(hs) ==
    [k \in 1..Len(hs) |-> [id |-> hs[k].id, rank |-> hs[k].rank,
                           score |-> ScoreOfRank(hs[k].rank)]]

\* agg({'score': 'sum'}) over the rows of one group
RECURSIVE AggSum(_, _)
AggSum(df, id) ==
    IF df = <<>> THEN 0
    ELSE (IF Head(df).id = id THEN Head(df).score ELSE 0) + AggSum(Tail(df), id)

\* df.groupby('id').agg({'score': 'sum'}): one row per distinct id, the group
\* keys in sorted order (groupby's default sort=True).
RECURSIVE GroupRows(_, _)
GroupRows(df, keys) ==
    IF keys = <<>> THEN <<>>
    ELSE IF \E k \in 1..Len(df) : df[k].id = Head(keys)
         THEN <<[id |-> Head(keys), score |-> AggSum(df, Head(keys))]>>
              \o GroupRows(df, Tail(keys))
         ELSE GroupRows(df, Tail(keys))

\* Mutant: no grouping, one row for every hit.
GroupBySumUngrouped(df) == [k \in 1..Len(df) |-> [id |-> df[k].id, score |-> df[k].score]]

\* The ids of a frame in the order of their first rows.
RECURSIVE FirstSeen(_, _)
FirstSeen(df, seen) ==
    IF df = <<>> THEN seen
    ELSE FirstSeen(Tail(df),
                   IF \E k \in 1..Len(seen) : seen[k] = Head(df).id
                   THEN seen ELSE Append(seen, Head(df).id))

\* Mutant: groupby(sort=False), the group keys in the order the hits name them.
GroupBySumUnsorted(df) == GroupRows(df, FirstSeen(df, <<>>))

GroupBySum(df) == GroupRows(df, IdOrder)

\* The place of position p in the build's order of equal keys.
TiePlace(ties, p) ==
    IF \E k \in 1..Len(ties) : ties[k] = p
    THEN CHOOSE k \in 1..Len(ties) : ties[k] = p
    ELSE p

\* Position x comes before position y in numpy's argsort of -score: the greater
\* score first. numpy's default kind ('quicksort') does not say in what order it
\* leaves equal keys: that order is a function of the positions alone, fixed by
\* the build (stable for the insertion sort of short arrays, not for the
\* vectorised kernels), and modelled by the build's order `ties` of positions.
\* Mutant: ascending=True.
SortsBeforeAscending(rows, x, y, ties) ==
    \/ rows[x].score < rows[y].score
    \/ rows[x].score = rows[y].score /\ TiePlace(ties, x) < TiePlace(ties, y)

SortsBefore(rows, x, y, ties) ==
    \/ rows[x].score > rows[y].score
    \/ rows[x].score = rows[y].score /\ TiePlace(ties, x) < TiePlace(ties, y)

\* nargsort: the positions of `rows` in the order sort_values puts them in.
RECURSIVE InsertPosition(_, _, _, _)
InsertPosition(rows, p, sorted, ties) ==
    IF sorted = <<>> THEN <<p>>
    ELSE IF SortsBefore(rows, p, Head(sorted), ties) THEN <<p>> \o sorted
    ELSE <<Head(sorted)>> \o InsertPosition(rows, p, Tail(sorted), ties)

RECURSIVE ArgSortUpTo(_, _, _)
ArgSortUpTo(rows, n, ties) ==
    IF n = 0 THEN <<>>
    ELSE InsertPosition(rows, n, ArgSortUpTo(rows, n - 1, ties), ties)

NArgSort(rows, ties) == ArgSortUpTo(rows, Len(rows), ties)

\* sort_values('score', ascending=False).reset_index()
SortValues(rows, ties) ==
    LET idx == NArgSort(rows, ties) IN [k \in 1..Len(rows) |-> rows[idx[k]]]

\* lines 121-124: the frame `ranked` of a non-empty hit list.
Ranked(hs, ties) == SortValues(GroupBySum(WithScore(hs)), ties)

\* lines 121-124. pd.DataFrame([]) has no columns, so df['rank'] raises KeyError.
BuildRanked ==
    /\ UNCHANGED buildVars
    /\ pc = "call"
    /\ IF hits = <<>>
       THEN /\ pc' = "raised"
            /\ error' = "KeyError: 'rank'"
            /\ UNCHANGED ranked
       ELSE /\ ranked' = Ranked(hits, argsort_ties)
            /\ pc' = "loop"
            /\ UNCHANGED error
    /\ UNCHANGED <<query, hits, vault, max_tokens, argsort_ties, pos, token_count, chunks>>

\* Mutant: vault.get(id), an id the vault does not hold is passed over.
LookupSkips ==
    /\ UNCHANGED buildVars
    /\ pc = "loop"
    /\ pos < Len(ranked)
    /\ ~Has(vault, ranked[pos + 1].id)
    /\ pos' = pos + 1
    /\ UNCHANGED <<query, hits, vault, max_tokens, argsort_ties, pc, ranked, token_count, chunks,
                   error>>

\* lines 130-132: vault[id] of an id the vault does not hold raises KeyError.
LookupFails ==
    /\ UNCHANGED buildVars
    /\ pc = "loop"
    /\ pos < Len(ranked)
    /\ ~Has(vault, ranked[pos + 1].id)
    /\ pc' = "raised"
    /\ error' = "KeyError: id"
    /\ UNCHANGED <<query, hits, vault, max_tokens, argsort_ties, ranked, pos, token_count, chunks>>

\* lines 133, 103-104: encoding.encode raises ValueError on a chunk that holds
\* the text of a special token.
EncodeFails ==
    /\ UNCHANGED buildVars
    /\ pc = "loop"
    /\ pos < Len(ranked)
    /\ Has(vault, ranked[pos + 1].id)
    /\ Disallowed(Get(vault, ranked[pos + 1].id).chunk)
    /\ pc' = "raised"
    /\ error' = "ValueError: disallowed special token"
    /\ UNCHANGED <<query, hits, vault, max_tokens, argsort_ties, ranked, pos, token_count, chunks>>

\* Mutant: `if token_count >= max_tokens`.
OverBudgetAtLimit(count, limit) == count >= limit

\* line 136: token_count > max_tokens
OverBudget(count, limit) == count > limit

\* Mutant: a chunk that does not fit is passed over and the walk goes on.
TakeChunkThatFits ==
    /\ UNCHANGED buildVars
    /\ pc = "loop"
    /\ pos < Len(ranked)
    /\ Has(vault, ranked[pos + 1].id)
    /\ LET doc == Get(vault, ranked[pos + 1].id)
           count == token_count + num_tokens_from_string(doc.chunk)
       IN  IF OverBudget(count, max_tokens)
           THEN UNCHANGED <<token_count, chunks>>
           ELSE /\ token_count' = count
                /\ chunks' = Append(chunks, [title |-> doc.title, chunk |-> doc.chunk])
    /\ pos' = pos + 1
    /\ UNCHANGED <<query, hits, vault, max_tokens, argsort_ties, pc, ranked, error>>

\* lines 130-139, one iteration on an id the vault holds.
TakeChunk ==
    /\ UNCHANGED buildVars
    /\ pc = "loop"
    /\ pos < Len(ranked)
    /\ Has(vault, ranked[pos + 1].id)
    /\ LET doc == Get(vault, ranked[pos + 1].id)
           count == token_count + num_tokens_from_string(doc.chunk)
       IN  /\ token_count' = count
           /\ IF OverBudget(count, max_tokens)
              THEN /\ pc' = "returned"               \* break, then return chunks
                   /\ UNCHANGED <<pos, chunks>>
              ELSE /\ chunks' = Append(chunks, [title |-> doc.title, chunk |-> doc.chunk])
                   /\ pos' = pos + 1
                   /\ UNCHANGED pc
    /\ UNCHANGED <<query, hits, vault, max_tokens, argsort_ties, ranked, error>>

\* lines 130-139: one iteration of `for id in ranked['id'].tolist()`.
ForId ==
    /\ pc = "loop"
    /\ pos < Len(ranked)
    /\ IF ~Has(vault, ranked[pos + 1].id) THEN LookupFails
       ELSE IF Disallowed(Get(vault, ranked[pos + 1].id).chunk) THEN EncodeFails
       ELSE TakeChunk

\* line 141, the loop having run out of ids.
ReturnChunks ==
    /\ UNCHANGED buildVars
    /\ pc = "loop"
    /\ pos = Len(ranked)
    /\ pc' = "returned"
    /\ UNCHANGED <<query, hits, vault, max_tokens, argsort_ties, ranked, pos, token_count,
                   chunks, error>>

-----------------------------------------------------------------------------
(* The inputs of the calls checked. *)

\* The ranks a hit carries: the best two of a source, and one past K.
Ranks == {0, 1, 11}

\* The ids the hits of a fabricated call name.
HitIds == <<"a.md-0", "a.md-1", "b.md-0">>

Ids == {HitIds[k] : k \in 1..Len(HitIds)}

\* The orders a build's argsort may leave the positions of equal scores in: a
\* frame made of hits on HitIds has at most that many rows.
TieOrders == SeqPermutations([k \in 1..Len(HitIds) |-> k])

Hit == [id : Ids, rank : Ranks]

RECURSIVE SeqsUpTo(_, _)
SeqsUpTo(S, n) ==
    IF n = 0 THEN {<<>>}
    ELSE LET shorter == SeqsUpTo(S, n - 1)
         IN  shorter \cup {Append(s, x) : s \in {t \in shorter : Len(t) = n - 1}, x \in S}

HitLists == SeqsUpTo(Hit, MaxHits)

\* The source document of a chunk id: its title and path.
DocOfId(id) == IF StartsWith(id, "a.md") THEN "a.md" ELSE "b.md"

\* The vault dict that holds the chunk `text[id]` under every id but the absent ones.
VaultOf(text) ==
    LET present == SelectSeq(HitIds, LAMBDA id : text[id] # "absent")
    IN  [k \in 1..Len(present) |->
            [id |-> present[k], title |-> DocOfId(present[k]), type |-> "chunk",
             path |-> DocOfId(present[k]), chunk |-> text[present[k]]]]

\* The vaults: a.md-0 is a chunk of one token and a.md-1 one of two tokens;
\* b.md-0 is a chunk of one token, or of two, or one that holds the text of a
\* special token, or an id the vault does not hold (the indices name it, the
\* vault was built without it).
Vaults ==
    {VaultOf([id \in Ids |-> IF id = "a.md-0" THEN "a"
                             ELSE IF id = "a.md-1" THEN "a b" ELSE last]) :
        last \in {"a", "a b", "a <|endoftext|>", "absent"}}

MaxBudget == 3

Budgets == 0..MaxBudget

Init ==
    /\ hits \in HitLists
    /\ vault \in Vaults
    /\ max_tokens \in Budgets
    /\ argsort_ties \in TieOrders
    /\ pc = "call"
    /\ query = ""
    /\ docs_unsent = <<>>
    /\ chunks_indexed = 0
    /\ bulk_calls = <<>>
    /\ batch_size = DefaultBatchSize
    /\ doc_embeddings_array = <<>>
    /\ ranked = <<>>
    /\ pos = 0
    /\ token_count = 0
    /\ chunks = <<>>
    /\ error = ""
    /\ fs = <<>>
    /\ rglob = <<>>
    /\ paths = <<>>
    /\ taken = 0
    /\ lines = <<>>
    /\ doc_chunks = <<>>
    /\ os_docs = <<>>
    /\ embedding_index = <<>>

Next ==
    \/ BuildRanked
    \/ ForId
    \/ ReturnChunks

Spec == Init /\ [][Next]_vars

-----------------------------------------------------------------------------
(* build_vault_dict.py: get_file_paths, chunk_doc_to_dict, create_vault_dict. *)

\* get_file_paths: min_lines
MinLines == 5

\* chunk_doc_to_dict: min_chunk_lines
MinChunkLines == 3

\* Python's None, falsy like the empty string.
None == ""

\* get_file_paths, lines 32-44: the files outside hidden directories that have
\* more than min_lines lines, in the order rglob yields them.
get_file_paths(files, order) ==
    SelectSeq(order, LAMBDA filename :
        ~StartsWith(filename, ".") /\ Len(files[filename]) > MinLines)

\* ''.join(list of str)
RECURSIVE Join(_)
Join(strs) == IF strs = <<>> THEN "" ELSE Head(strs) \o Join(Tail(strs))

\* lines 64-71: the lines the loop skips.
Skipped(line) ==
    \/ StartsWith(line, "\n")
    \/ StartsWith(line, "- tag")
    \/ StartsWith(line, "- source")
    \/ Contains(line, "![](assets")

\* lines 63-85: the loop body on one line; st holds the locals chunks,
\* current_chunk, chunk_idx and current_header.
ChunkStep(st, line, min_chunk_lines) ==
    IF Skipped(line) THEN st
    ELSE LET header == IF StartsWith(line, "#") THEN line ELSE st.current_header
             closes == StartsWith(line, "- ") /\ st.current_chunk # <<>>
             keeps == closes /\ Len(st.current_chunk) >= min_chunk_lines
         IN  [chunks |-> IF keeps
                         THEN Append(st.chunks,
                                     [idx |-> st.chunk_idx, lines |-> st.current_chunk])
                         ELSE st.chunks,
              chunk_idx |-> IF keeps THEN st.chunk_idx + 1 ELSE st.chunk_idx,
              current_chunk |->
                  IF closes
                  THEN (IF header # None THEN <<header>> ELSE <<>>) \o <<line>>
                  ELSE Append(st.current_chunk, line),
              current_header |-> header]

RECURSIVE ChunkLoop(_, _, _)
ChunkLoop(st, ls, min_chunk_lines) ==
    IF ls = <<>> THEN st
    ELSE ChunkLoop(ChunkStep(st, Head(ls), min_chunk_lines), Tail(ls), min_chunk_lines)

\* chunk_doc_to_dict, lines 58-92: the dict chunk_idx -> chunk, as its items.
chunk_doc_to_dict(ls, min_chunk_lines) ==
    LET st == ChunkLoop([chunks |-> <<>>, current_chunk |-> <<>>, chunk_idx |-> 0,
                         current_header |-> None], ls, min_chunk_lines)
    IN  IF st.current_chunk # <<>> /\ Len(st.current_chunk) > min_chunk_lines
        THEN Append(st.chunks, [idx |-> st.chunk_idx, lines |-> st.current_chunk])
        ELSE st.chunks

\* d[rec.id] = rec on a dict kept as its items in insertion order.
Put(d, rec) ==
    IF Has(d, rec.id)
    THEN [k \in 1..Len(d) |-> IF d[k].id = rec.id THEN rec ELSE d[k]]
    ELSE Append(d, rec)

\* lines 119-126: the chunk records of one file added to the vault.
RECURSIVE PutChunks(_, _, _)
PutChunks(d, filename, cs) ==
    IF cs = <<>> THEN d
    ELSE PutChunks(Put(d, [id |-> filename \o "-" \o ToString(Head(cs).idx),
                           title |-> filename, type |-> "chunk", path |-> filename,
                           chunk |-> Join(Head(cs).lines)]),
                   filename, Tail(cs))

\* Mutant: the whole-document record is added whether or not the file has chunks.
PutDocumentAlways(d, filename, ls, cs) ==
    PutChunks(Put(d, [id |-> filename, title |-> filename, type |-> "doc",
                      path |-> filename, chunk |-> Join(ls)]),
              filename, cs)

\* lines 112-126: the records of one file added to the vault.
PutDocument(d, filename, ls, cs) ==
    IF Len(cs) > 0
    THEN PutChunks(Put(d, [id |-> filename, title |-> filename, type |-> "doc",
                           path |-> filename, chunk |-> Join(ls)]),
                   filename, cs)
    ELSE d

\* __main__, line 136.
GetFilePaths ==
    /\ pc = "get_file_paths"
    /\ paths' = get_file_paths(fs, rglob)
    /\ pc' = "create_vault_dict"
    /\ UNCHANGED <<query, hits, vault, max_tokens, argsort_ties, ranked, pos, token_count,
                   chunks, error, fs, rglob, taken, lines, doc_chunks, os_docs,
                   embedding_index, indexVars, embedVars>>

\* create_vault_dict, lines 107-126: one iteration of the loop over paths.
ReadDocument ==
    /\ pc = "create_vault_dict"
    /\ taken < Len(paths)
    /\ LET filename == paths[taken + 1]
           ls == fs[filename]
           cs == chunk_doc_to_dict(ls, MinChunkLines)
       IN  /\ lines' = ls
           /\ doc_chunks' = cs
           /\ vault' = PutDocument(vault, filename, ls, cs)
    /\ taken' = taken + 1
    /\ UNCHANGED <<query, hits, max_tokens, argsort_ties, pc, ranked, pos, token_count,
                   chunks, error, fs, rglob, paths, os_docs, embedding_index,
                   indexVars, embedVars>>

\* create_vault_dict, line 128, and the pickle the later stages load.
ReturnVault ==
    /\ pc = "create_vault_dict"
    /\ taken = Len(paths)
    /\ pc' = "index_vault"
    /\ UNCHANGED <<query, hits, vault, max_tokens, argsort_ties, ranked, pos, token_count,
                   chunks, error, buildVars>>

-----------------------------------------------------------------------------
(* build_opensearch_index.py: index_vault, query_opensearch. *)

\* index_vault: `chunks_indexed % 2000 == 0`
FlushEvery == 2000

\* index_vault: `chunks_indexed % 200 > 0`
FinalFlushModulus == 200

\* query_opensearch, query_semantic: n_results
NResults == 10

\* lines 117-127: the document index_vault makes of a vault record.
OsDoc(doc) ==
    [_id |-> doc.id, title |-> doc.title, type |-> doc.type, path |-> doc.path,
     chunk_header |-> Head(doc.chunk), chunk |-> doc.chunk]

\* lines 105-135: the bulk calls index_vault makes, each the list it sends;
\* k - 1 records are taken, docs is the list not yet sent.
RECURSIVE IndexLoop(_, _, _, _)
IndexLoop(d, k, docs, bulks) ==
    IF k > Len(d)
    THEN IF Len(d) % FinalFlushModulus > 0 THEN Append(bulks, docs) ELSE bulks
    ELSE IF k % FlushEvery = 0
         THEN IndexLoop(d, k + 1, <<>>, Append(bulks, Append(docs, OsDoc(d[k]))))
         ELSE IndexLoop(d, k + 1, Append(docs, OsDoc(d[k])), bulks)

RECURSIVE Flatten(_)
Flatten(lists) == IF lists = <<>> THEN <<>> ELSE Head(lists) \o Flatten(Tail(lists))

\* index_vault, lines 91-137: the documents the index holds afterwards.
index_vault(d) == Flatten(IndexLoop(d, 1, <<>>, <<>>))

\* lines 105-132: the local list `docs` when the loop has run out of records,
\* k - 1 records being taken: the documents made since the last bulk call of
\* line 131.
RECURSIVE IndexDocs(_, _, _)
IndexDocs(d, k, docs) ==
    IF k > Len(d) THEN docs
    ELSE IF k % FlushEvery = 0
         THEN IndexDocs(d, k + 1, <<>>)
         ELSE IndexDocs(d, k + 1, Append(docs, OsDoc(d[k])))

\* __main__, line 206: the whole call index_vault(vault, os_client, INDEX_NAME),
\* with the bulk calls it makes, the documents they leave in the index, and
\* its locals as they are at the return.
IndexVault ==
    /\ pc = "index_vault"
    /\ bulk_calls' = IndexLoop(vault, 1, <<>>, <<>>)
    /\ os_docs' = index_vault(vault)
    /\ docs_unsent' = IndexDocs(vault, 1, <<>>)
    /\ chunks_indexed' = Len(vault)
    /\ pc' = "build_embedding_index"
    /\ UNCHANGED <<query, hits, vault, max_tokens, argsort_ties, ranked, pos, token_count,
                   chunks, error, fs, rglob, paths, taken, lines, doc_chunks,
                   embedding_index, embedVars>>

\* The sequences of n distinct elements of S.
RECURSIVE Arrangements(_, _)
Arrangements(S, n) ==
    IF n = 0 THEN {<<>>}
    ELSE {Append(s, x) : s \in Arrangements(S, n - 1), x \in S} \ 
         {t \in {Append(s, x) : s \in Arrangements(S, n - 1), x \in S} :
             \E a, b \in 1..n : a # b /\ t[a] = t[b]}

Min(a, b) == IF a < b THEN a ELSE b

\* Mutant: the query has no filter on the type.
OsMatchesOfAnyType(docs) == {docs[k] : k \in 1..Len(docs)}

\* query_opensearch, line 183: "filter": [{"term": {"type": "chunk"}}]
OsMatches(docs) == {doc \in {docs[k] : k \in 1..Len(docs)} : doc.type = "chunk"}

\* query_opensearch, lines 160-190: the responses the engine may give, at most
\* n_results of the documents that pass the filter, best first.
OsResponses(docs) ==
    UNION {Arrangements(OsMatches(docs), n) :
              n \in 0..Min(NResults, Cardinality(OsMatches(docs)))}

-----------------------------------------------------------------------------
(* build_semantic_index.py: build_embedding_index, query_semantic. *)

\* Mutant: the whole documents are not skipped.
build_embedding_index_of_all(d) == [k \in 1..Len(d) |-> d[k].id]

\* build_embedding_index, lines 72-82: place k holds the id of row k - 1.
build_embedding_index(d) ==
    LET kept == SelectSeq(d, LAMBDA doc : doc.type # "doc")
    IN  [k \in 1..Len(kept) |-> kept[k].id]

\* `s.split()`: the words of s, in order, cut at every run of characters
\* str.isspace() holds of.
RECURSIVE SplitWords(_, _, _)
SplitWords(s, word, words) ==
    IF s = "" THEN (IF word = "" THEN words ELSE Append(words, word))
    ELSE IF IsSpace(SubSeq(s, 1, 1))
         THEN SplitWords(Tail(s), "", IF word = "" THEN words ELSE Append(words, word))
         ELSE SplitWords(Tail(s), word \o SubSeq(s, 1, 1), words)

RECURSIVE JoinWords(_)
JoinWords(words) ==
    IF words = <<>> THEN ""
    ELSE IF Len(words) = 1 THEN Head(words)
    ELSE Head(words) \o " " \o JoinWords(Tail(words))

\* build_embedding_array, lines 113-115: the text that is embedded for a chunk.
ProcessedChunk(chunk) == "passage: " \o JoinWords(SplitWords(chunk, "", <<>>))

\* The row the model gives for a text: the attention mask keeps the padding of
\* a batch out of average_pool, so the row is a function of the text alone.
EmbeddingOf(text) == [embedding_of |-> text]

\* get_batch_embeddings, lines 27-58: one row per text of the batch, in order.
get_batch_embeddings(document_batch) ==
    [k \in 1..Len(document_batch) |-> EmbeddingOf(document_batch[k])]

\* Mutant: the chunks left in the batch after the loop are not embedded.
FinalBatchDropped(chunk_batch, chunks_batched, embedding_list) == embedding_list

\* build_embedding_array, lines 130-133: "Add any remaining chunks to batch".
FinalBatch(chunk_batch, chunks_batched, embedding_list) ==
    IF chunks_batched > 0
    THEN Append(embedding_list, get_batch_embeddings(chunk_batch))
    ELSE embedding_list

\* build_embedding_array, lines 98-133: the list `embedding_list` after the
\* loop and the final batch; k - 1 items of the vault are taken.
RECURSIVE EmbedLoop(_, _, _, _, _, _)
EmbedLoop(d, k, chunk_batch, chunks_batched, embedding_list, size) ==
    IF k > Len(d) THEN FinalBatch(chunk_batch, chunks_batched, embedding_list)
    ELSE IF d[k].type = "doc"
         THEN EmbedLoop(d, k + 1, chunk_batch, chunks_batched, embedding_list, size)
         ELSE LET batch == Append(chunk_batch, ProcessedChunk(d[k].chunk))
              IN  IF (chunks_batched + 1) % size = 0
                  THEN EmbedLoop(d, k + 1, <<>>, 0,
                                 Append(embedding_list, get_batch_embeddings(batch)), size)
                  ELSE EmbedLoop(d, k + 1, batch, chunks_batched + 1, embedding_list, size)

EmbeddingList(d, size) == EmbedLoop(d, 1, <<>>, 0, <<>>, size)

\* build_embedding_array, lines 135-140: np.concatenate(embedding_list, axis=0)
\* of a list that is not empty; the reshape leaves the rows as they are.
build_embedding_array(d, size) == Flatten(EmbeddingList(d, size))

\* __main__, lines 178-191. With no chunk to embed, np.concatenate of the empty
\* list raises in build_embedding_array (line 135) and nothing is saved; the
\* assert of line 180 raises when the two lengths differ.
BuildEmbeddingIndex ==
    /\ pc = "build_embedding_index"
    /\ embedding_index' = build_embedding_index(vault)
    /\ IF EmbeddingList(vault, batch_size) = <<>>
       THEN /\ pc' = "raised"
            /\ error' = "ValueError"
            /\ UNCHANGED doc_embeddings_array
       ELSE /\ doc_embeddings_array' = build_embedding_array(vault, batch_size)
            /\ IF Len(embedding_index') = Len(doc_embeddings_array')
               THEN pc' = "serve" /\ UNCHANGED error
               ELSE pc' = "raised" /\ error' = "AssertionError"
    /\ UNCHANGED <<query, hits, vault, max_tokens, argsort_ties, ranked, pos, token_count,
                   chunks, fs, rglob, paths, taken, lines, doc_chunks, os_docs,
                   indexVars, batch_size>>

\* query_semantic, lines 157-162: np.argsort(cos_sims)[-n_results:][::-1], the
\* rows of the n_results greatest similarities (all rows when there are fewer).
SemanticResponses(rows) == Arrangements(0..(rows - 1), Min(NResults, rows))


-----------------------------------------------------------------------------
(* app.py: parse_os_response, parse_semantic_response, get_chunks. *)

\* get_chunks_from_hits: the default of max_tokens
DefaultMaxTokens == 3200

\* parse_os_response, lines 68-73
parse_os_response(response) ==
    [k \in 1..Len(response) |-> [id |-> response[k]._id, rank |-> k - 1]]

\* parse_semantic_response, lines 85-90
parse_semantic_response(indices, index) ==
    [k \in 1..Len(indices) |-> [id |-> index[indices[k] + 1], rank |-> k - 1]]

\* The query strings of the requests modelled: the empty one, a blank one, and
\* the test query of __main__.
Queries == {"", " \t", "Examples of bandits in industry"}

\* get_chunks, lines 145-157, up to the call of get_chunks_from_hits. FastAPI
\* binds any string to `query: str`, the empty one too, and nothing looks at
\* the string before it goes to both sources. query_opensearch puts it in the
\* `should` clauses of a bool query that has a filter, so it bears on the
\* scores, not on which documents match; query_semantic embeds "query: " plus
\* the string and takes the rows of the greatest similarities.
GetChunks ==
    /\ pc = "serve"
    /\ \E q \in Queries :
          /\ query' = q
          /\ \E os_response \in OsResponses(os_docs),
                semantic_response \in SemanticResponses(Len(doc_embeddings_array)) :
                hits' = parse_os_response(os_response)
                          \o parse_semantic_response(semantic_response, embedding_index)
    /\ max_tokens' = DefaultMaxTokens
    /\ pc' = "call"
    /\ UNCHANGED <<vault, argsort_ties, ranked, pos, token_count, chunks, error,
                   buildVars>>

-----------------------------------------------------------------------------
(* The offline build followed by one request. *)

\* The files of the model. Each line ends in a newline.
FileNoChunk ==
    <<"\n", "- tag: x\n", "- source: y\n", "![](assets/i.png)\n", "- b\n", "t\n">>

FileOneChunk == <<"# H\n", "- b\n", "t\n", "t\n", "\n", "\n">>

FileTwoChunks == <<"# H\n", "- b\n", "t\n", "- b\n", "t\n", "t\n">>

FileShortLast == <<"# H\n", "- b\n", "t\n", "- b\n", "t\n", "\n">>

FileFewLines == <<"- b\n", "t\n", "t\n", "t\n">>

Files == {FileNoChunk, FileOneChunk, FileTwoChunks, FileShortLast, FileFewLines}

\* The markdown files rglob finds: two notes and one in a hidden directory.
NotePaths == {"a.md", "b.md"}

HiddenPath == ".trash/c.md"

FileSystems ==
    {[filename \in NotePaths \cup {HiddenPath} |->
         IF filename = HiddenPath THEN FileTwoChunks ELSE notes[filename]] :
        notes \in [NotePaths -> Files]}

\* The most rows the frame of line 124 has in a request: the chunks of the
\* notes, two of each at most.
PipelineRows == 2 * Cardinality(NotePaths)

\* The orders in which a build's argsort may leave that many equal scores.
PipelineTieOrders == SeqPermutations([k \in 1..PipelineRows |-> k])

PipelineInit ==
    /\ fs \in FileSystems
    /\ rglob \in SeqPermutations(<<"a.md", "b.md", HiddenPath>>)
    /\ argsort_ties \in PipelineTieOrders
    /\ pc = "get_file_paths"
    /\ paths = <<>>
    /\ taken = 0
    /\ lines = <<>>
    /\ doc_chunks = <<>>
    /\ vault = <<>>
    /\ os_docs = <<>>
    /\ embedding_index = <<>>
    /\ query = ""
    /\ docs_unsent = <<>>
    /\ chunks_indexed = 0
    /\ bulk_calls = <<>>
    /\ batch_size = DefaultBatchSize
    /\ doc_embeddings_array = <<>>
    /\ hits = <<>>
    /\ max_tokens = DefaultMaxTokens
    /\ ranked = <<>>
    /\ pos = 0
    /\ token_count = 0
    /\ chunks = <<>>
    /\ error = ""

PipelineNext ==
    \/ GetFilePaths
    \/ ReadDocument
    \/ ReturnVault
    \/ IndexVault
    \/ BuildEmbeddingIndex
    \/ GetChunks
    \/ BuildRanked
    \/ ForId
    \/ ReturnChunks

Pipeline == PipelineInit /\ [][PipelineNext]_vars

-----------------------------------------------------------------------------
(* The semantic index built on its own, for any batch size. *)

\* The vaults build_embedding_array is checked on: every arrangement of at most
\* MaxEmbedRecords whole-document and chunk records, each with a text of its own.
EmbedRecord(k, type) ==
    [id |-> IF type = "doc" THEN ToString(k) \o ".md" ELSE ToString(k) \o ".md-0",
     title |-> ToString(k) \o ".md", type |-> type, path |-> ToString(k) \o ".md",
     chunk |-> "# H" \o ToString(k) \o "\n- b \fc\r\n\tt\n"]

EmbedVaults ==
    {[k \in 1..Len(types) |-> EmbedRecord(k, types[k])] :
        types \in SeqsUpTo({"doc", "chunk"}, MaxEmbedRecords)}

EmbeddingInit ==
    /\ vault \in EmbedVaults
    /\ batch_size \in 1..MaxBatchSize
    /\ pc = "build_embedding_index"
    /\ query = ""
    /\ docs_unsent = <<>>
    /\ chunks_indexed = 0
    /\ bulk_calls = <<>>
    /\ doc_embeddings_array = <<>>
    /\ embedding_index = <<>>
    /\ os_docs = <<>>
    /\ fs = <<>>
    /\ rglob = <<>>
    /\ paths = <<>>
    /\ taken = 0
    /\ lines = <<>>
    /\ doc_chunks = <<>>
    /\ hits = <<>>
    /\ max_tokens = DefaultMaxTokens
    /\ argsort_ties \in {<<1, 2, 3>>}
    /\ ranked = <<>>
    /\ pos = 0
    /\ token_count = 0
    /\ chunks = <<>>
    /\ error = ""

EmbeddingNext == BuildEmbeddingIndex

Embedding == EmbeddingInit /\ [][EmbeddingNext]_vars

-----------------------------------------------------------------------------
(* The lexical index built on its own, record by record, for vaults whose  *)
(* sizes lie around the two moduli of index_vault.                         *)

\* index_vault, lines 105-132: one iteration of the loop over vault.items().
IndexRecord ==
    /\ pc = "index_vault: for"
    /\ chunks_indexed < Len(vault)
    /\ LET appended == Append(docs_unsent, OsDoc(vault[chunks_indexed + 1]))
       IN  /\ chunks_indexed' = chunks_indexed + 1
           /\ IF chunks_indexed' % FlushEvery = 0
              THEN /\ bulk_calls' = Append(bulk_calls, appended)
                   /\ os_docs' = os_docs \o appended
                   /\ docs_unsent' = <<>>
              ELSE /\ docs_unsent' = appended
                   /\ UNCHANGED <<bulk_calls, os_docs>>
    /\ UNCHANGED <<query, hits, vault, max_tokens, argsort_ties, pc, ranked, pos,
                   token_count, chunks, error, fs, rglob, paths, taken, lines,
                   doc_chunks, embedding_index, embedVars>>

\* index_vault, lines 134-137: the bulk call after the loop, and the return.
IndexReturn ==
    /\ pc = "index_vault: for"
    /\ chunks_indexed = Len(vault)
    /\ IF chunks_indexed % FinalFlushModulus > 0
       THEN /\ bulk_calls' = Append(bulk_calls, docs_unsent)
            /\ os_docs' = os_docs \o docs_unsent
       ELSE UNCHANGED <<bulk_calls, os_docs>>
    /\ pc' = "index_vault: returned"
    /\ UNCHANGED <<query, hits, vault, max_tokens, argsort_ties, ranked, pos,
                   token_count, chunks, error, fs, rglob, paths, taken, lines,
                   doc_chunks, embedding_index, docs_unsent, chunks_indexed, embedVars>>

\* The numbers of records of the vaults indexed: none, one, and those next to
\* the moduli of lines 130 and 134.
IndexSizes ==
    {0, 1, FinalFlushModulus - 1, FinalFlushModulus, FinalFlushModulus + 1,
     FlushEvery - 1, FlushEvery, FlushEvery + 1, FlushEvery + FinalFlushModulus}

\* A vault of n records, a whole-document record and a chunk record in turn.
IndexVaultOfSize(n) ==
    [k \in 1..n |-> EmbedRecord(k, IF k % 2 = 1 THEN "doc" ELSE "chunk")]

IndexingInit ==
    /\ vault \in {IndexVaultOfSize(n) : n \in IndexSizes}
    /\ pc = "index_vault: for"
    /\ docs_unsent = <<>>
    /\ chunks_indexed = 0
    /\ bulk_calls = <<>>
    /\ os_docs = <<>>
    /\ query = ""
    /\ batch_size = DefaultBatchSize
    /\ doc_embeddings_array = <<>>
    /\ embedding_index = <<>>
    /\ fs = <<>>
    /\ rglob = <<>>
    /\ paths = <<>>
    /\ taken = 0
    /\ lines = <<>>
    /\ doc_chunks = <<>>
    /\ hits = <<>>
    /\ max_tokens = DefaultMaxTokens
    /\ argsort_ties \in {<<1, 2, 3>>}
    /\ ranked = <<>>
    /\ pos = 0
    /\ token_count = 0
    /\ chunks = <<>>
    /\ error = ""

IndexingNext == IndexRecord \/ IndexReturn

Indexing == IndexingInit /\ [][IndexingNext]_vars

-----------------------------------------------------------------------------
(* What the claims speak of. *)

\* The ids of the first n rows of `ranked` are all held by the vault.
AllHeld(n) == \A k \in 1..n : Has(vault, ranked[k].id)

\* The token count of the chunks of the first n rows of `ranked`.
RECURSIVE PrefixTokens(_)
PrefixTokens(n) ==
    IF n = 0 THEN 0
    ELSE PrefixTokens(n - 1) + num_tokens_from_string(Get(vault, ranked[n].id).chunk)

\* The token count of a returned list.
RECURSIVE ListTokens(_)
ListTokens(list) ==
    IF list = <<>> THEN 0
    ELSE num_tokens_from_string(Head(list).chunk) + ListTokens(Tail(list))

\* The entry get_chunks_from_hits returns for an id.
EntryOf(id) == [title |-> Get(vault, id).title, chunk |-> Get(vault, id).chunk]

\* encode() takes the chunks of the first n rows of `ranked`.
AllEncoded(n) == \A k \in 1..n : ~Disallowed(Get(vault, ranked[k].id).chunk)

\* The first n rows of `ranked` are held by the vault, their chunks are counted
\* and fit the budget together.
Fits(n) == AllHeld(n) /\ AllEncoded(n) /\ PrefixTokens(n) <= max_tokens

\* The positions of the hits that name an id.
HitsOf(id) == {k \in 1..Len(hits) : hits[k].id = id}

RECURSIVE SumOfScores(_)
SumOfScores(S) ==
    IF S = {} THEN 0
    ELSE LET k == CHOOSE x \in S : TRUE
         IN  (10 - hits[k].rank) + SumOfScores(S \ {k})

RowsOf(id) == {k \in 1..Len(ranked) : ranked[k].id = id}

\* The rearrangements of the hit list.
Rearranged(hs) ==
    {[k \in 1..Len(hs) |-> hs[p[k]]] : p \in Permutations(1..Len(hs))}

-----------------------------------------------------------------------------
(* C1. Budget respect: the token counts of the chunks get_chunks_from_hits *)
(* returns sum to at most max_tokens, and when a candidate of the          *)
(* score-ordered list is left out, the first one left out would have taken *)
(* the sum past max_tokens.                                                *)
BudgetRespected ==
    pc = "returned" =>
        /\ ListTokens(chunks) <= max_tokens
        /\ Len(chunks) < Len(ranked) =>
              /\ Has(vault, ranked[Len(chunks) + 1].id)
              /\ ListTokens(chunks)
                   + num_tokens_from_string(Get(vault, ranked[Len(chunks) + 1].id).chunk)
                 > max_tokens

\* A call returned some chunks and left a candidate out.
BudgetWitness ==
    /\ pc = "returned"
    /\ Len(chunks) >= 1
    /\ Len(chunks) < Len(ranked)
    /\ ListTokens(chunks) = max_tokens

(* C2. Prefix property: the returned list is the entries of the longest    *)
(* prefix of the score-ordered, deduplicated candidates that fits the      *)
(* budget; no candidate after the first overflowing one is included, and   *)
(* when the top candidate alone overflows the call returns the empty list  *)
(* without an error.                                                       *)
LongestPrefix ==
    pc = "returned" =>
        /\ error = ""
        /\ \E n \in 0..Len(ranked) :
              /\ Fits(n)
              /\ \A m \in 0..Len(ranked) : Fits(m) => m <= n
              /\ chunks = [k \in 1..n |-> EntryOf(ranked[k].id)]

\* The top candidate alone overflowed, the list returned is empty, and a later
\* candidate that would have fitted was not taken.
LongestPrefixWitness ==
    /\ pc = "returned"
    /\ chunks = <<>>
    /\ Len(ranked) >= 2
    /\ Has(vault, ranked[2].id)
    /\ num_tokens_from_string(Get(vault, ranked[2].id).chunk) <= max_tokens

(* C3. Deduplication: every id the hits name has exactly one row among the *)
(* candidates, its score is the sum of 10 - rank over all the hits that    *)
(* name it, and the output holds at most one entry per candidate row, so   *)
(* at most one per id.                                                     *)
Deduplicated ==
    pc \in {"loop", "returned"} =>
        /\ \A id \in Ids :
              IF HitsOf(id) = {} THEN RowsOf(id) = {}
              ELSE /\ Cardinality(RowsOf(id)) = 1
                   /\ \A k \in RowsOf(id) : ranked[k].score = SumOfScores(HitsOf(id))
        /\ Len(chunks) <= Len(ranked)
        /\ \A k \in 1..Len(chunks) : chunks[k] = EntryOf(ranked[k].id)

\* An id named by two hits is in the output of a call that returned.
DeduplicatedWitness ==
    /\ pc = "returned"
    /\ \E k \in 1..Len(chunks) :
          /\ Cardinality(HitsOf(ranked[k].id)) = 2
          /\ ranked[k].score = 19

(* C4. Score order: the candidates are in descending order of combined     *)
(* score; of two ids named by one hit each, the one of the lower rank has  *)
(* the greater score and comes first; a hit of rank >= 10, whose score is  *)
(* zero or negative, still has its candidate.                              *)
ScoreOrdered ==
    pc \in {"loop", "returned"} =>
        /\ \A j, k \in 1..Len(ranked) : j < k => ranked[j].score >= ranked[k].score
        /\ \A a, b \in 1..Len(hits) :
              (/\ HitsOf(hits[a].id) = {a}
               /\ HitsOf(hits[b].id) = {b}
               /\ hits[a].rank < hits[b].rank)
              => \E j, k \in 1..Len(ranked) :
                    /\ ranked[j].id = hits[a].id
                    /\ ranked[k].id = hits[b].id
                    /\ ranked[j].score > ranked[k].score
                    /\ j < k
        /\ \A a \in 1..Len(hits) : RowsOf(hits[a].id) # {}

\* A candidate of negative score, from a hit of rank >= 10, is returned after
\* one of positive score.
ScoreOrderedWitness ==
    /\ pc = "returned"
    /\ Len(chunks) = 2
    /\ ranked[1].score > 0
    /\ ranked[2].score < 0
    /\ \E a \in 1..Len(hits) : hits[a].rank >= 10 /\ HitsOf(ranked[2].id) = {a}

(* C5, as claimed. A hit that names an id the vault does not hold makes    *)
(* the call fail: no call that was given such a hit returns a list.        *)
MissingIdAlwaysFails ==
    pc = "returned" => \A a \in 1..Len(hits) : Has(vault, hits[a].id)

(* C5, amended. A missing id makes the call fail whenever the walk reaches *)
(* it, that is when the candidates ranked before it are all held, counted  *)
(* and fit the budget together: such a call returns no list, it raises     *)
(* KeyError. A call that returns was given a missing id only behind the    *)
(* first overflowing candidate. The one other failure of a call on a       *)
(* non-empty hit list is the ValueError of a chunk encode() does not take. *)
MissingIdFailsWhenReached ==
    /\ pc = "returned" =>
          \A k \in 1..Len(ranked) : Fits(k - 1) => Has(vault, ranked[k].id)
    /\ (pc = "raised" /\ hits # <<>>) =>
          /\ pos < Len(ranked)
          /\ Fits(pos)
          /\ IF Has(vault, ranked[pos + 1].id)
             THEN /\ Disallowed(Get(vault, ranked[pos + 1].id).chunk)
                  /\ error = "ValueError: disallowed special token"
             ELSE error = "KeyError: id"

\* The walk had taken a chunk when it reached a missing id: the call raised.
MissingIdWitness ==
    /\ pc = "raised"
    /\ error = "KeyError: id"
    /\ Len(chunks) >= 1

(* C6. Empty-input law: a call with an empty hit list returns the empty    *)
(* list and raises nothing.                                                *)
EmptyHitsReturnEmpty ==
    (hits = <<>> /\ pc # "call") => (pc = "returned" /\ chunks = <<>> /\ error = "")

(* C7. Determinism: in every call that returns, the candidates, and so the *)
(* entries returned and their order, are the same however the hits are     *)
(* listed: equal scores are ordered by the sorted group keys and the       *)
(* build's sort, not by the order of the hit list.                         *)
SameForAnyListing ==
    pc = "returned" =>
        \A hs \in Rearranged(hits) : Ranked(hs, argsort_ties) = ranked

\* Two candidates of equal score were returned in the order opposite to the one
\* the hit list names them in.
SameForAnyListingWitness ==
    /\ pc = "returned"
    /\ Len(chunks) = 2
    /\ ranked[1].score = ranked[2].score
    /\ \A a \in HitsOf(ranked[1].id), b \in HitsOf(ranked[2].id) : b < a

(* C8. Chunks only: the embedding index maps its rows to ids of chunk-type *)
(* records only, every hit of either source names a chunk-type record of   *)
(* the vault, and so no whole-document record is among the entries         *)
(* get_chunks returns.                                                     *)
OnlyChunksReturned ==
    /\ pc \in {"serve", "call", "loop", "returned"} =>
          \A k \in 1..Len(embedding_index) :
              /\ Has(vault, embedding_index[k])
              /\ Get(vault, embedding_index[k]).type = "chunk"
    /\ pc \in {"call", "loop", "returned"} =>
          \A a \in 1..Len(hits) :
              /\ Has(vault, hits[a].id)
              /\ Get(vault, hits[a].id).type = "chunk"
    /\ pc = "returned" =>
          \A k \in 1..Len(chunks) :
              /\ Get(vault, ranked[k].id).type = "chunk"
              /\ chunks[k] = EntryOf(ranked[k].id)

\* A request returned chunks of two documents, named by hits of both sources,
\* from a vault that holds their whole-document records too.
OnlyChunksWitness ==
    /\ pc = "returned"
    /\ \E k \in 1..Len(vault) : vault[k].type = "doc"
    /\ Len(hits) > Len(embedding_index)
    /\ \E j, k \in 1..Len(chunks) : chunks[j].title # chunks[k].title

\* The segments chunk_doc_to_dict cuts the lines it does not skip into, before
\* any is discarded: a top-level bullet closes the segment in progress and opens
\* one that starts with the section header in force.
RECURSIVE Segments(_, _, _)
Segments(ls, current, header) ==
    IF ls = <<>> THEN (IF current = <<>> THEN <<>> ELSE <<current>>)
    ELSE LET line == Head(ls)
             h == IF StartsWith(line, "#") THEN line ELSE header
         IN  IF Skipped(line) THEN Segments(Tail(ls), current, header)
             ELSE IF StartsWith(line, "- ") /\ current # <<>>
                  THEN <<current>>
                       \o Segments(Tail(ls), (IF h # "" THEN <<h>> ELSE <<>>) \o <<line>>, h)
                  ELSE Segments(Tail(ls), Append(current, line), h)

\* The segments of at least n lines, numbered from 0.
KeptSegments(ls, n) ==
    LET kept == SelectSeq(Segments(ls, <<>>, ""), LAMBDA c : Len(c) >= n)
    IN  [k \in 1..Len(kept) |-> [idx |-> k - 1, lines |-> kept[k]]]

\* The records of the vault that come from a file.
RecordsOf(filename) == {k \in 1..Len(vault) : vault[k].path = filename}

\* The vault holds the whole-document record of a file read as ls.
HoldsDocument(filename, ls) ==
    /\ Has(vault, filename)
    /\ Get(vault, filename)
         = [id |-> filename, title |-> filename, type |-> "doc", path |-> filename,
            chunk |-> Join(ls)]

\* The vault holds one chunk record for every chunk of cs, and they and the
\* whole-document record (when `whole`) are all its records of the file.
HoldsChunks(filename, cs, whole) ==
    /\ \A c \in 1..Len(cs) :
          /\ Has(vault, filename \o "-" \o ToString(cs[c].idx))
          /\ Get(vault, filename \o "-" \o ToString(cs[c].idx))
               = [id |-> filename \o "-" \o ToString(cs[c].idx), title |-> filename,
                  type |-> "chunk", path |-> filename, chunk |-> Join(cs[c].lines)]
    /\ Cardinality(RecordsOf(filename)) = Len(cs) + (IF whole THEN 1 ELSE 0)
    /\ \A j, k \in 1..Len(vault) : vault[j].id = vault[k].id => j = k

(* C9, as claimed. For every path given to create_vault_dict the vault     *)
(* holds exactly one whole-document record, with the path as id, and one   *)
(* chunk record <path>-<sequence> for each chunk of the document, also     *)
(* when the document has no chunk.                                         *)
EveryDocumentRecorded ==
    pc = "index_vault" =>
        \A p \in 1..Len(paths) :
            /\ HoldsDocument(paths[p], fs[paths[p]])
            /\ HoldsChunks(paths[p], chunk_doc_to_dict(fs[paths[p]], MinChunkLines), TRUE)

(* C9, amended. For every path whose document has at least one chunk the   *)
(* vault holds exactly one whole-document record, with the path as id, and *)
(* one chunk record <path>-<sequence> for each chunk; a document with no   *)
(* chunk has no record at all, and the vault holds nothing else.           *)
DocumentsWithChunksRecorded ==
    pc = "index_vault" =>
        /\ \A p \in 1..Len(paths) :
              LET cs == chunk_doc_to_dict(fs[paths[p]], MinChunkLines)
              IN  IF cs = <<>> THEN RecordsOf(paths[p]) = {}
                  ELSE /\ HoldsDocument(paths[p], fs[paths[p]])
                       /\ HoldsChunks(paths[p], cs, TRUE)
        /\ \A k \in 1..Len(vault) : \E p \in 1..Len(paths) : vault[k].path = paths[p]

\* The vault is built from one document of two chunks and one of none.
DocumentsRecordedWitness ==
    /\ pc = "index_vault"
    /\ Len(paths) = 2
    /\ \E p, q \in 1..Len(paths) :
          /\ chunk_doc_to_dict(fs[paths[p]], MinChunkLines) = <<>>
          /\ Len(chunk_doc_to_dict(fs[paths[q]], MinChunkLines)) = 2
    /\ Len(vault) = 3

(* C10. One minimum-line rule: of the chunks of a document, the one closed *)
(* by the next top-level bullet and the last one alike, chunk_doc_to_dict  *)
(* keeps exactly those of at least min_chunk_lines lines, numbered         *)
(* consecutively from 0.                                                   *)
OneMinimumLineRule ==
    (pc = "create_vault_dict" /\ taken > 0) =>
        doc_chunks = KeptSegments(lines, MinChunkLines)

(* C11, as claimed. A request whose query is empty or made of whitespace   *)
(* alone never gets chunks back: when get_chunks returns for such a query, *)
(* the list it returns is empty.                                           *)
Blank(q) == \A k \in 1..Len(q) : IsSpace(Ch(q, k))

BlankQueryYieldsNothing ==
    (pc = "returned" /\ Blank(query)) => chunks = <<>>

(* C12, as claimed. Exactly once: when index_vault has returned, the bulk   *)
(* calls it made hold, put end to end, the document of every record of the *)
(* vault once and no other, whatever the number of records is.             *)
EveryRecordSentOnce ==
    pc = "index_vault: returned" =>
        Flatten(bulk_calls) = [k \in 1..Len(vault) |-> OsDoc(vault[k])]

\* The ids of the chunk-type records of the vault, in the order of the vault.
ChunkIds ==
    LET kept == SelectSeq(vault, LAMBDA doc : doc.type = "chunk")
    IN  [k \in 1..Len(kept) |-> kept[k].id]

(* C13. Rows and ids agree: for a vault with at least one chunk and any    *)
(* batch size from 1 up, the build goes through (the assertion on the two  *)
(* lengths holds), embedding_index lists the ids of the chunks in the      *)
(* order of the vault, the array has as many rows as the index has ids,    *)
(* and each row is the embedding of the chunk of the id at its place: no   *)
(* batch, full or partial, drops, repeats or moves a chunk.                *)
RowsMatchIndex ==
    (pc \in {"serve", "call", "loop", "returned", "raised"} /\ ChunkIds # <<>>) =>
        /\ error \notin {"ValueError", "AssertionError"}
        /\ embedding_index = ChunkIds
        /\ Len(doc_embeddings_array) = Len(embedding_index)
        /\ \A k \in 1..Len(embedding_index) :
              /\ Has(vault, embedding_index[k])
              /\ doc_embeddings_array[k]
                   = EmbeddingOf(ProcessedChunk(Get(vault, embedding_index[k]).chunk))

\* Four chunks after a whole document were embedded three to a batch: one full
\* batch and a final batch of one; the first row is of the second record.
RowsMatchIndexWitness ==
    /\ pc = "serve"
    /\ batch_size = 3
    /\ Len(vault) = 5
    /\ vault[1].type = "doc"
    /\ Len(embedding_index) = 4
    /\ Len(doc_embeddings_array) = 4
    /\ doc_embeddings_array[1].embedding_of = "passage: # H2 - b c t"
    /\ doc_embeddings_array[4].embedding_of = "passage: # H5 - b c t"

====
